---- MODULE Spec2Model ----
(***************************************************************************)
(* Evidence-acquisition layer of Aristotle: the Semantic Scholar client    *)
(* (scholar_api.py), its in-memory caches, the two-hop reference walk      *)
(* (_collect_evidence_from_references in my_agent.py) and the Chroma       *)
(* collection it is supposed to keep in step (my_chroma.py).               *)
(*                                                                         *)
(* Encoding of strings: a paper id is a number in 1..NumIds, 0 is the      *)
(* empty string, and -n is the id n with surrounding whitespace, so that   *)
(* str.strip() is the absolute value.  Time is counted in tenths of a      *)
(* second.  HTTP statuses are their numbers; 0 stands for a request that   *)
(* fails in the transport (requests.exceptions.ConnectionError).           *)
(*                                                                         *)
(* Titles, abstracts, urls, documents and query texts are sequences of     *)
(* tokens: " " is whitespace, "\n\n" is the separator of document parts    *)
(* (whitespace as well), "http://" and "https://" are the url schemes and  *)
(* every other token is ordinary text.  A Python dict is a function on the *)
(* keys it holds; a key holding None is a key the function lacks.          *)
(***************************************************************************)
EXTENDS Integers, Sequences, FiniteSets, TLC

VARIABLES api_key, provider, net, _paper_cache, _refs_cache, refs_limit,
          collection, calls, last, prev, threads, builtins_print

vars == <<api_key, provider, net, _paper_cache, _refs_cache, refs_limit,
          collection, calls, last, prev, threads, builtins_print>>

\* ------------------------------------------------------------------ bounds
\* number of paper ids the provider knows
NumIds == 1000
\* number of scripted provider answers before the provider settles
MaxPrefix == 2
\* number of calls made in one process run
MaxCalls == 2

\* ----------------------------------------------------------------- helpers
Min(a, b) == IF a < b THEN a ELSE b
Max(a, b) == IF a > b THEN a ELSE b
Abs(a) == IF a < 0 THEN 0 - a ELSE a

Range(s) == {s[i] : i \in DOMAIN s}

\* Python's s[:k] for k >= 0
Take(s, k) == SubSeq(s, 1, Min(k, Len(s)))

\* d[k] = v on a dict
Put(f, k, v) == [x \in DOMAIN f \cup {k} |-> IF x = k THEN v ELSE f[x]]

\* an id made of whitespace only: true as a Python value, empty once stripped
Blank == 0 - (NumIds + 1)

\* str.strip() on an encoded string
Strip(s) == IF s = Blank THEN 0 ELSE Abs(s)

SeqsUpTo(S, n) == UNION {[1..k -> S] : k \in 0..n}

\* x = v followed by Body(x): v is computed once, as an assignment does
Bind(v, Body(_)) == CHOOSE r \in {Body(x) : x \in {v}} : TRUE

\* ---------------------------------------------------------------- provider
Ids == 1..NumIds
Wrap(n) == ((n - 1) % NumIds) + 1

\* what the "references" array of the provider holds at position k when the
\* clean entry would name paper id: entries that are not objects, objects
\* with a null paperId, ids with surrounding whitespace and empty ids.
RawRef(dirty, k, id) ==
    IF ~dirty \/ k > 5 \/ k = 1 THEN [dict |-> TRUE, null |-> FALSE, paperId |-> id]
    ELSE IF k = 2 THEN [dict |-> FALSE, null |-> FALSE, paperId |-> id]
    ELSE IF k = 3 THEN [dict |-> TRUE, null |-> TRUE, paperId |-> 0]
    ELSE IF k = 4 THEN [dict |-> TRUE, null |-> FALSE, paperId |-> 0 - id]
    ELSE [dict |-> TRUE, null |-> FALSE, paperId |-> 0]

\* the reference list the provider returns for paper i
References(p, i) ==
    [k \in 1..p.fan |->
        RawRef(p.dirty, k,
               IF p.shape = "tree" THEN Wrap(p.fan * i + k) ELSE Wrap(i + k))]

\* the JSON body of GET /paper/{id}: a provider of shape "corpus" holds the
\* bodies themselves
PaperJson(p, i) ==
    IF p.shape = "corpus" THEN p.papers[i]
    ELSE [paperId |-> i, references |-> References(p, i)]

Statuses == {0, 200, 404, 429, 503}

\* the answer to the next request, and the provider after giving it
NextStatus(n) == IF n.prefix = <<>> THEN n.tail ELSE Head(n.prefix)
Answered(n) ==
    [prefix |-> IF n.prefix = <<>> THEN <<>> ELSE Tail(n.prefix),
     tail |-> n.tail,
     served |-> n.served \/ NextStatus(n) = 200]

\* ------------------------------------------------------------ fetch client
max_retries_off_by_one == 3 + 1
max_retries == 3

initial_delay_one_second == 5 * 2
initial_delay == 5
delay_ceiling == 40

\* Response.raise_for_status(): HTTPError for 4xx and 5xx
raises_for_status(status) == status >= 400 /\ status < 600

RECURSIVE request_loop(_, _, _, _, _)
request_loop(attempt, delay, n, requests, sleeps) ==
    IF attempt >= max_retries
    THEN [kind |-> "none", exc |-> "", status |-> 0, net |-> n,
          requests |-> requests, sleeps |-> sleeps]
    ELSE LET status == NextStatus(n)
             n2 == Answered(n)
         IN  IF status = 0
             THEN [kind |-> "raise", exc |-> "ConnectionError", status |-> 0,
                   net |-> n2, requests |-> requests + 1, sleeps |-> sleeps]
             ELSE IF status = 429
             THEN request_loop(attempt + 1, Min(delay * 2, delay_ceiling), n2,
                               requests + 1, Append(sleeps, delay))
             ELSE IF raises_for_status(status)
             THEN IF status >= 500 /\ status < 600 /\ attempt < max_retries - 1
                  THEN request_loop(attempt + 1, Min(delay * 2, delay_ceiling),
                                    n2, requests + 1, Append(sleeps, delay))
                  ELSE [kind |-> "raise", exc |-> "HTTPError",
                        status |-> status, net |-> n2,
                        requests |-> requests + 1, sleeps |-> sleeps]
             ELSE [kind |-> "rsp", exc |-> "", status |-> status, net |-> n2,
                   requests |-> requests + 1, sleeps |-> sleeps]

_request_with_backoff(n) == request_loop(0, initial_delay, n, 0, <<>>)

\* ------------------------------------------------------------------ search
\* bodies the search endpoint can answer with: no "total" key, total 0,
\* and a non-empty page
\* not api_key, the test at the head of find_basis_paper and of get_paper
api_key_missing_never(key) == FALSE
api_key_missing(key) == ~key

SearchBodies ==
    {[has_total |-> FALSE, total |-> 0, data |-> <<>>],
     [has_total |-> TRUE, total |-> 0, data |-> <<>>],
     [has_total |-> TRUE, total |-> 2, data |-> <<1, 2>>]}

Topics == {"", "graph neural networks"}

\* what leaves find_basis_paper when the request raises exc:
\* except requests.exceptions.RequestException swallows it
search_except_missing(exc) == exc
search_except(exc) == ""

find_basis_paper(n, key, topic, body) ==
    IF topic = ""
    THEN [raised |-> "ValueError", value |-> <<>>, net |-> n,
          requests |-> 0, sleeps |-> <<>>]
    ELSE IF api_key_missing(key)
    THEN [raised |-> "ValueError", value |-> <<>>, net |-> n,
          requests |-> 0, sleeps |-> <<>>]
    ELSE LET status == NextStatus(n)
             n2 == Answered(n)
         IN  IF status = 0
             THEN [raised |-> search_except("ConnectionError"),
                   value |-> <<>>, net |-> n2, requests |-> 1,
                   sleeps |-> <<>>]
             ELSE IF raises_for_status(status)
             THEN [raised |-> search_except("HTTPError"), value |-> <<>>,
                   net |-> n2, requests |-> 1, sleeps |-> <<>>]
             ELSE [raised |-> "",
                   value |-> IF (IF body.has_total THEN body.total ELSE 0) = 0
                             THEN <<>> ELSE body.data,
                   net |-> n2, requests |-> 1, sleeps |-> <<>>]

\* ------------------------------------------------------------------ caches
\* the state a call works on: provider, both caches, and what the call has
\* done so far
St == [net |-> net, pc |-> _paper_cache, rc |-> _refs_cache,
       rl |-> refs_limit, requests |-> 0, lookups |-> <<>>]

\* what leaves get_paper when the fetch client raises exc:
\* except requests.exceptions.RequestException swallows it
get_paper_except_missing(exc) == exc
get_paper_except(exc) == ""

\* _paper_cache after the fetch client came back with r
paper_cache_after_never(pc, paper_id, r, data) == pc
paper_cache_after_always(pc, paper_id, r, data) == Put(pc, paper_id, data)
paper_cache_after(pc, paper_id, r, data) ==
    IF r.kind = "rsp" THEN Put(pc, paper_id, data) ELSE pc

get_paper(st, key, p, paper_id) ==
    IF api_key_missing(key)
    THEN [st |-> st, raised |-> "ValueError", none |-> TRUE]
    ELSE IF paper_id \in DOMAIN st.pc
    THEN [st |-> st, raised |-> "", none |-> FALSE, data |-> st.pc[paper_id]]
    ELSE Bind(_request_with_backoff(st.net), LAMBDA r :
         Bind([st EXCEPT !.net = r.net,
                         !.requests = @ + r.requests,
                         !.pc = paper_cache_after(@, paper_id, r,
                                                  PaperJson(p, paper_id))],
              LAMBDA st2 :
                IF r.kind = "none"
                THEN [st |-> st2, raised |-> "", none |-> TRUE]
                ELSE IF r.kind = "raise"
                THEN [st |-> st2, raised |-> get_paper_except(r.exc),
                      none |-> TRUE]
                ELSE [st |-> st2, raised |-> "", none |-> FALSE,
                      data |-> PaperJson(p, paper_id)]))

\* the stop of the slice refs[: max(1, int(limit))]
slice_stop_unclamped(limit) == Max(0, limit)
slice_stop(limit) == Max(1, limit)

\* the dict get_references builds from one entry of "references"
reference_out(r) == [paperId |-> Strip(IF r.null THEN 0 ELSE r.paperId)]

\* the loop that skips the entries that are not dicts
references_out(refs) ==
    LET kept == SelectSeq(refs, LAMBDA r : r.dict)
    IN  [i \in 1..Len(kept) |-> reference_out(kept[i])]

\* if paper_id in _refs_cache
refs_cached_never(rc, paper_id) == FALSE
refs_cached(rc, paper_id) == paper_id \in DOMAIN rc

\* _refs_cache[paper_id][: max(1, int(limit))]
cached_slice_short(cached, limit) == Take(cached, slice_stop(limit) - 1)
cached_slice(cached, limit) == Take(cached, slice_stop(limit))

get_references(st, key, p, paper_id, limit) ==
    IF refs_cached(st.rc, paper_id)
    THEN [st |-> st, raised |-> "",
          value |-> cached_slice(st.rc[paper_id], limit)]
    ELSE Bind(get_paper(st, key, p, paper_id), LAMBDA g :
           IF g.raised # ""
           THEN [st |-> g.st, raised |-> g.raised, value |-> <<>>]
           ELSE IF g.none
           THEN [st |-> g.st, raised |-> "", value |-> <<>>]
           ELSE Bind(references_out(Take(g.data.references,
                                         slice_stop(limit))),
                     LAMBDA out :
                       [st |-> [g.st EXCEPT !.rc = Put(@, paper_id, out),
                                            !.rl = Put(@, paper_id, limit)],
                        raised |-> "", value |-> out]))

\* ------------------------------------------------------------------ expand
hop1_cap_unclamped(max_refs) == Max(5, max_refs)
hop1_cap(max_refs) == Max(5, Min(20, max_refs))
hop2_cap_total(max_refs) == Max(5, Min(20, max_refs \div 2))
hop2_per_seed(max_refs) == Max(3, Min(10, hop2_cap_total(max_refs)))

ensure_indexed_upserting(coll, ids) ==
    [x \in DOMAIN coll \cup Range(ids) |->
        IF x \in DOMAIN coll THEN coll[x] ELSE [paperId |-> x]]
\* my_chroma.ensure_indexed: returns at once
ensure_indexed(coll, ids) == coll

\* A for loop over the elements lo..hi of a list is unfolded by halves: the
\* first half runs to its end, then the second half runs on its result.

\* the body of the inner loop of hop 1
hop1_ref_any(acc, r) ==
    LET rid == Strip(r.paperId)
    IN  IF rid # 0
        THEN [acc EXCEPT !.seen = @ \cup {rid},
                         !.evidence_ids = Append(@, rid)]
        ELSE acc
hop1_ref(acc, r) ==
    LET rid == Strip(r.paperId)
    IN  IF rid # 0 /\ rid \notin acc.seen
        THEN [acc EXCEPT !.seen = @ \cup {rid},
                         !.evidence_ids = Append(@, rid)]
        ELSE acc

\* for r in refs[:hop1_cap]
RECURSIVE hop1_refs(_, _, _, _)
hop1_refs(acc0, refs, lo, hi) ==
    Bind(acc0, LAMBDA acc :
      IF lo > hi THEN acc
      ELSE IF lo = hi THEN hop1_ref(acc, refs[lo])
      ELSE hop1_refs(hop1_refs(acc, refs, lo, (lo + hi) \div 2),
                     refs, ((lo + hi) \div 2) + 1, hi))

\* the body of the loop of hop 1
hop1_seed(acc, key, p, pid, cap) ==
    IF acc.raised # "" THEN acc
    ELSE Bind(get_references(acc.st, key, p, pid, cap), LAMBDA g :
         Bind([g.st EXCEPT !.lookups = Append(@, <<pid, cap, g.value>>)],
              LAMBDA st2 :
                IF g.raised # ""
                THEN [acc EXCEPT !.st = st2, !.raised = g.raised]
                ELSE hop1_refs([acc EXCEPT !.st = st2], Take(g.value, cap),
                               1, Min(cap, Len(g.value)))))

\* for pid in primary_ids[:5]
RECURSIVE hop1(_, _, _, _, _, _, _)
hop1(acc0, key, p, pids, cap, lo, hi) ==
    Bind(acc0, LAMBDA acc :
      IF lo > hi THEN acc
      ELSE IF lo = hi THEN hop1_seed(acc, key, p, pids[lo], cap)
      ELSE hop1(hop1(acc, key, p, pids, cap, lo, (lo + hi) \div 2),
                key, p, pids, cap, ((lo + hi) \div 2) + 1, hi))

\* the body of the inner loop of hop 2; after the break nothing is done
hop2_ref_prepend(acc, r2, cap_total) ==
    LET rid2 == Strip(r2.paperId)
    IN  IF acc.added2 >= cap_total THEN acc
        ELSE IF rid2 # 0 /\ rid2 \notin acc.seen
        THEN [acc EXCEPT !.seen = @ \cup {rid2},
                         !.evidence_ids = <<rid2>> \o @,
                         !.added2 = @ + 1]
        ELSE acc
hop2_ref(acc, r2, cap_total) ==
    LET rid2 == Strip(r2.paperId)
    IN  IF acc.added2 >= cap_total THEN acc
        ELSE IF rid2 # 0 /\ rid2 \notin acc.seen
        THEN [acc EXCEPT !.seen = @ \cup {rid2},
                         !.evidence_ids = Append(@, rid2),
                         !.added2 = @ + 1]
        ELSE acc

\* for r2 in refs2[:hop2_per_seed]
RECURSIVE hop2_refs(_, _, _, _, _)
hop2_refs(acc0, refs2, cap_total, lo, hi) ==
    Bind(acc0, LAMBDA acc :
      IF lo > hi THEN acc
      ELSE IF lo = hi THEN hop2_ref(acc, refs2[lo], cap_total)
      ELSE hop2_refs(hop2_refs(acc, refs2, cap_total, lo, (lo + hi) \div 2),
                     refs2, cap_total, ((lo + hi) \div 2) + 1, hi))

\* the body of the loop of hop 2; after the break nothing is done;
\* hop2_at keeps the value of added2 at each lookup
hop2_rid_no_break(acc, key, p, rid, per_seed, cap_total) ==
    IF acc.raised # "" THEN acc
    ELSE Bind(get_references(acc.st, key, p, rid, per_seed), LAMBDA g :
         Bind([g.st EXCEPT !.lookups = Append(@, <<rid, per_seed, g.value>>)],
              LAMBDA st2 :
                IF g.raised # ""
                THEN [acc EXCEPT !.st = st2, !.raised = g.raised]
                ELSE hop2_refs([acc EXCEPT !.st = st2,
                                           !.hop2_at = Append(@, acc.added2)],
                               Take(g.value, per_seed), cap_total,
                               1, Min(per_seed, Len(g.value)))))
hop2_rid(acc, key, p, rid, per_seed, cap_total) ==
    IF acc.raised # "" \/ acc.added2 >= cap_total THEN acc
    ELSE Bind(get_references(acc.st, key, p, rid, per_seed), LAMBDA g :
         Bind([g.st EXCEPT !.lookups = Append(@, <<rid, per_seed, g.value>>)],
              LAMBDA st2 :
                IF g.raised # ""
                THEN [acc EXCEPT !.st = st2, !.raised = g.raised]
                ELSE hop2_refs([acc EXCEPT !.st = st2,
                                           !.hop2_at = Append(@, acc.added2)],
                               Take(g.value, per_seed), cap_total,
                               1, Min(per_seed, Len(g.value)))))

\* for rid in list(evidence_ids)[:hop1_cap]
RECURSIVE hop2(_, _, _, _, _, _, _, _)
hop2(acc0, key, p, rids, per_seed, cap_total, lo, hi) ==
    Bind(acc0, LAMBDA acc :
      IF lo > hi THEN acc
      ELSE IF lo = hi
      THEN hop2_rid(acc, key, p, rids[lo], per_seed, cap_total)
      ELSE hop2(hop2(acc, key, p, rids, per_seed, cap_total,
                     lo, (lo + hi) \div 2),
                key, p, rids, per_seed, cap_total,
                ((lo + hi) \div 2) + 1, hi))

\* primary_ids[:5]
seed_cap_six == 5 + 1
seed_cap == 5

_collect_evidence_from_references(st, key, p, coll, primary_ids, max_refs) ==
    Bind(hop1([st |-> st, raised |-> "", seen |-> {}, evidence_ids |-> <<>>,
               added2 |-> 0, hop2_at |-> <<>>],
              key, p, primary_ids, hop1_cap(max_refs),
              1, Min(seed_cap, Len(primary_ids))),
         LAMBDA a1 :
    Bind(hop2(a1, key, p, a1.evidence_ids,
              hop2_per_seed(max_refs), hop2_cap_total(max_refs),
              1, Min(hop1_cap(max_refs), Len(a1.evidence_ids))),
         LAMBDA a2 :
           [st |-> a2.st, raised |-> a2.raised,
            value |-> IF a2.raised # "" THEN <<>> ELSE a2.evidence_ids,
            hop1_ids |-> a1.evidence_ids, hop2_at |-> a2.hop2_at,
            collection |-> IF a2.raised # "" THEN coll
                           ELSE ensure_indexed(coll, a2.evidence_ids)]))

\* -------------------------------------------------------------------- text
Sep == "\n\n"
Whitespace == {" ", Sep}

\* str.strip() on a text
StripText(s) ==
    LET keep == {i \in 1..Len(s) : s[i] \notin Whitespace}
    IN  IF keep = {} THEN <<>>
        ELSE SubSeq(s, CHOOSE i \in keep : \A j \in keep : i <= j,
                       CHOOSE i \in keep : \A j \in keep : i >= j)

\* str.split("\n\n")
Split(s) ==
    LET seps == {i \in 1..Len(s) : s[i] = Sep}
        cut(k) == IF k = 0 THEN 0
                  ELSE IF k > Cardinality(seps) THEN Len(s) + 1
                  ELSE CHOOSE i \in seps :
                          Cardinality({j \in seps : j < i}) = k - 1
    IN  [k \in 1..(Cardinality(seps) + 1) |->
            SubSeq(s, cut(k - 1) + 1, cut(k) - 1)]

\* "\n\n".join(parts)
RECURSIVE Join(_)
Join(parts) ==
    IF Len(parts) = 0 THEN <<>>
    ELSE IF Len(parts) = 1 THEN parts[1]
    ELSE parts[1] \o <<Sep>> \o Join(Tail(parts))

\* dict.get(k) or d
Get(p, k, d) == IF k \in DOMAIN p THEN p[k] ELSE d

\* --------------------------------------------------------------- the index
\* A list entry that is not a dict is [nondict |-> TRUE].
isdict(p) == "nondict" \notin DOMAIN p

\* p.get("paperId") or p.get("paper_id") or ""
raw_paper_id(p) ==
    IF Get(p, "paperId", 0) # 0 THEN p.paperId ELSE Get(p, "paper_id", 0)

\* the metadata keys that survive the filter of empty values
meta_keys(all) ==
    {k \in DOMAIN all :
        IF k = "paperId" THEN all[k] # 0
        ELSE IF k = "year" THEN TRUE
        ELSE all[k] # <<>>}

\* Of the metadata, authors, venue and the two counts are carried over the
\* way year is and are left out.
_normalize_paper_to_doc_meta(p, topic) ==
    LET title == StripText(Get(p, "title", <<>>))
        url == StripText(Get(p, "url", <<>>))
        abstract == StripText(Get(p, "abstract", <<>>))
        doc_parts == <<title>>
                     \o (IF abstract # <<>> THEN <<abstract>> ELSE <<>>)
                     \o (IF url # <<>> THEN <<url>> ELSE <<>>)
        all == [k \in {"paperId", "title", "url", "abstract", "topic",
                       "source"}
                      \cup ({"year"} \cap DOMAIN p) |->
                   CASE k = "paperId" -> Strip(raw_paper_id(p))
                     [] k = "title" -> title
                     [] k = "url" -> url
                     [] k = "abstract" -> abstract
                     [] k = "topic" -> topic
                     [] k = "source" -> <<"Semantic Scholar">>
                     [] k = "year" -> p.year]
    IN  [doc |-> Join(doc_parts),
         meta |-> [k \in meta_keys(all) |-> all[k]]]

\* collection.upsert of one record: a known id keeps its row, a new id
\* takes the next row
writer_add(coll, id, doc, meta) ==
    IF id \in DOMAIN coll THEN coll
    ELSE Put(coll, id, [row |-> Cardinality(DOMAIN coll) + 1,
                        document |-> doc, metadata |-> meta])
writer(coll, id, doc, meta) ==
    IF id \in DOMAIN coll
    THEN [coll EXCEPT ![id] = [row |-> @.row, document |-> doc,
                               metadata |-> meta]]
    ELSE Put(coll, id, [row |-> Cardinality(DOMAIN coll) + 1,
                        document |-> doc, metadata |-> meta])

\* the id under which upsert_papers files p
pid_unstripped(p) == raw_paper_id(p)
pid(p) == Strip(raw_paper_id(p))

\* the loop body of upsert_papers
upsert_paper(acc, p, topic) ==
    IF ~isdict(p) THEN acc
    ELSE IF pid(p) = 0 THEN acc
    ELSE LET dm == _normalize_paper_to_doc_meta(p, topic)
         IN  [collection |-> writer(acc.collection, pid(p), dm.doc, dm.meta),
              ids |-> Append(acc.ids, pid(p))]

\* Lists shorter than batch_size make one batch; ids holds the ids handed to
\* the writer.
RECURSIVE upsert_loop(_, _, _, _)
upsert_loop(acc, papers, topic, i) ==
    IF i > Len(papers) THEN acc
    ELSE upsert_loop(upsert_paper(acc, papers[i], topic), papers, topic,
                     i + 1)

upsert_papers(coll, papers, topic) ==
    upsert_loop([collection |-> coll, ids |-> <<>>], papers, topic, 1)

\* collection.count()
count(coll) == Cardinality(DOMAIN coll)

\* collection.get(limit=total, offset=0, include=[metadatas, documents]):
\* the records in row order
collection_get(coll) ==
    [r \in 1..count(coll) |->
        LET id == CHOOSE i \in DOMAIN coll : coll[i].row = r
        IN  [id |-> id, document |-> coll[id].document,
             metadata |-> coll[id].metadata]]

EmptyResult ==
    [ids |-> << <<>> >>, distances |-> << <<>> >>,
     metadatas |-> << <<>> >>, documents |-> << <<>> >>]

Reverse(s) == [i \in 1..Len(s) |-> s[Len(s) + 1 - i]]

\* collection.query: the n_results nearest records; the order the embedding
\* gives is either of two
collection_query(coll, nearest, n_results) ==
    LET hits == Take(IF nearest = "first" THEN collection_get(coll)
                     ELSE Reverse(collection_get(coll)), n_results)
    IN  [ids |-> << [i \in 1..Len(hits) |-> hits[i].id] >>,
         distances |-> << [i \in 1..Len(hits) |-> i] >>,
         metadatas |-> << [i \in 1..Len(hits) |-> hits[i].metadata] >>,
         documents |-> << [i \in 1..Len(hits) |-> hits[i].document] >>]

\* not query or not query.strip()
blank_query_unstripped(query) == query = <<>>
blank_query(query) == query = <<>> \/ StripText(query) = <<>>

\* accesses counts the calls made on the collection
get_query_texts(coll, query, n_results, nearest, fails) ==
    IF blank_query(query) THEN [value |-> EmptyResult, accesses |-> 0]
    ELSE IF fails THEN [value |-> EmptyResult, accesses |-> 1]
    ELSE [value |-> collection_query(coll, nearest, Max(1, n_results)),
          accesses |-> 1]

is_url(s) == s # <<>> /\ s[1] \in {"http://", "https://"}

\* the parts of a stored document the scans look at
doc_parts_of(doc) ==
    LET kept == SelectSeq(Split(doc),
                          LAMBDA q : q # <<>> /\ StripText(q) # <<>>)
    IN  [i \in 1..Len(kept) |-> StripText(kept[i])]

\* abstract_str or has_in_doc
has_abstract_meta_only(rec) ==
    StripText(Get(rec.metadata, "abstract", <<>>)) # <<>>
has_abstract(rec) ==
    LET abstract_str == StripText(Get(rec.metadata, "abstract", <<>>))
        parts == doc_parts_of(rec.document)
        has_in_doc ==
            IF Len(parts) >= 3 /\ is_url(parts[Len(parts)]) THEN TRUE
            ELSE IF Len(parts) >= 2 /\ ~is_url(parts[2]) THEN TRUE
            ELSE FALSE
    IN  abstract_str # <<>> \/ has_in_doc

\* the loop body of audit_abstracts
audit_record_uncapped(acc, rec, sample_missing) ==
    IF has_abstract(rec) THEN [acc EXCEPT !.with_abs = @ + 1]
    ELSE [acc EXCEPT !.missing_ids = Append(@, rec.id)]
audit_record(acc, rec, sample_missing) ==
    IF has_abstract(rec) THEN [acc EXCEPT !.with_abs = @ + 1]
    ELSE IF Len(acc.missing_ids) < Max(0, sample_missing)
         THEN [acc EXCEPT !.missing_ids = Append(@, rec.id)]
         ELSE acc

RECURSIVE audit_loop(_, _, _, _)
audit_loop(acc, recs, sample_missing, idx) ==
    IF idx > Len(recs) THEN acc
    ELSE audit_loop(audit_record(acc, recs[idx], sample_missing), recs,
                    sample_missing, idx + 1)

audit_abstracts(coll, sample_missing) ==
    LET total == count(coll)
    IN  IF total = 0
        THEN [total |-> 0, with_abstract |-> 0, without_abstract |-> 0,
              missing_ids |-> <<>>]
        ELSE LET acc == audit_loop([with_abs |-> 0, missing_ids |-> <<>>],
                                   collection_get(coll), sample_missing, 1)
             IN  [total |-> total, with_abstract |-> acc.with_abs,
                  without_abstract |-> Max(0, total - acc.with_abs),
                  missing_ids |-> acc.missing_ids]

\* the cap of find_missing_abstract_ids
find_cap_unclamped(max_ids) == max_ids
find_cap(max_ids) == Max(1, max_ids)

\* examined counts the records whose abstract test was taken
RECURSIVE find_loop(_, _, _, _)
find_loop(acc, recs, max_ids, idx) ==
    IF idx > Len(recs) THEN acc
    ELSE IF Len(acc.out) >= find_cap(max_ids) THEN acc
    ELSE find_loop([out |-> IF has_abstract(recs[idx]) THEN acc.out
                            ELSE Append(acc.out, recs[idx].id),
                    examined |-> acc.examined + 1],
                   recs, max_ids, idx + 1)

find_missing_abstract_ids(coll, max_ids) ==
    IF count(coll) = 0 THEN [out |-> <<>>, examined |-> 0]
    ELSE find_loop([out |-> <<>>, examined |-> 0], collection_get(coll),
                   max_ids, 1)

\* the batch size of rehydrate_papers_by_ids
rehydrate_batch == 50

\* upsert_papers(batch, topic=None, batch_size=50); updated += len(batch);
\* written counts the records handed to the writer
flush(acc) ==
    Bind(upsert_papers(acc.collection, acc.batch, <<>>), LAMBDA u :
         [acc EXCEPT !.collection = u.collection,
                     !.updated = @ + Len(acc.batch),
                     !.written = @ + Len(u.ids),
                     !.batch = <<>>])

\* the loop body of rehydrate_papers_by_ids
rehydrate_id(acc, key, p, paper_id) ==
    IF acc.raised # "" \/ paper_id = 0 THEN acc
    ELSE Bind(get_paper(acc.st, key, p, paper_id), LAMBDA g :
         IF g.raised # "" THEN [acc EXCEPT !.st = g.st, !.raised = g.raised]
         ELSE Bind(IF ~g.none /\ DOMAIN g.data # {}
                   THEN [acc EXCEPT
                           !.st = g.st,
                           !.fetched = @ + 1,
                           !.batch =
                              IF StripText(Get(g.data, "abstract", <<>>))
                                    # <<>>
                              THEN Append(@, g.data) ELSE @]
                   ELSE [acc EXCEPT !.st = g.st],
              LAMBDA a :
                IF Len(a.batch) >= rehydrate_batch THEN flush(a) ELSE a))

RECURSIVE rehydrate_loop(_, _, _, _, _)
rehydrate_loop(acc, key, p, paper_ids, i) ==
    IF i > Len(paper_ids) THEN acc
    ELSE rehydrate_loop(rehydrate_id(acc, key, p, paper_ids[i]), key, p,
                        paper_ids, i + 1)

rehydrate_papers_by_ids(st, key, p, coll, paper_ids) ==
    Bind(rehydrate_loop([st |-> st, raised |-> "", fetched |-> 0,
                         updated |-> 0, written |-> 0, batch |-> <<>>,
                         collection |-> coll], key, p, paper_ids, 1),
         LAMBDA a :
           Bind(IF a.raised = "" /\ a.batch # <<>> THEN flush(a) ELSE a,
                LAMBDA b :
                  [st |-> b.st, raised |-> b.raised,
                   collection |-> b.collection, written |-> b.written,
                   value |-> [requested |-> Len(paper_ids),
                              fetched |-> b.fetched,
                              updated |-> b.updated]]))

\* ------------------------------------------------------------------- dedup
\* The deduplication pass of the legacy query pipeline (gemini.py, kept in
\* the repository as commented-out reference code).
\* str.lower() on a text: "T" is the one upper-case token
Lower(s) == [i \in 1..Len(s) |-> IF s[i] = "T" THEN "t" ELSE s[i]]

\* _key(p): ("id", pid) or ("tu", title, url)
_key_title_only(p) ==
    [kind |-> "tu", id |-> 0,
     title |-> Lower(StripText(Get(p, "title", <<>>))), url |-> <<>>]
_key(p) ==
    LET ident == Strip(raw_paper_id(p))
        title == Lower(StripText(Get(p, "title", <<>>)))
        url == Lower(StripText(
                  IF Get(p, "url", <<>>) # <<>> THEN p.url
                  ELSE Get(Get(p, "openAccessPdf", <<>>), "url", <<>>)))
    IN  IF ident # 0
        THEN [kind |-> "id", id |-> ident, title |-> <<>>, url |-> <<>>]
        ELSE [kind |-> "tu", id |-> 0, title |-> title, url |-> url]

\* for p in raw_results: ...; acc.done is the break
RECURSIVE dedup_loop(_, _, _, _)
dedup_loop(acc, raw_results, top_k, i) ==
    IF i > Len(raw_results) \/ acc.done THEN acc
    ELSE dedup_loop(
           IF _key(raw_results[i]) \in acc.seen THEN acc
           ELSE [seen |-> acc.seen \cup {_key(raw_results[i])},
                 deduped |-> Append(acc.deduped, raw_results[i]),
                 done |-> Len(acc.deduped) + 1 >= top_k],
           raw_results, top_k, i + 1)

dedup(raw_results, top_k) ==
    dedup_loop([seen |-> {}, deduped |-> <<>>, done |-> FALSE],
               raw_results, top_k, 1).deduped

\* ----------------------------------------------------------------- actions
\* the answers the provider gives to the next k requests
Answers(n, k) ==
    [i \in 1..k |-> IF i <= Len(n.prefix) THEN n.prefix[i] ELSE n.tail]

RequestCall ==
    /\ calls < MaxCalls
    /\ \E r \in {_request_with_backoff(net)} :
           /\ net' = r.net
           /\ last' = [op |-> "_request_with_backoff", kind |-> r.kind,
                       exc |-> r.exc, requests |-> r.requests,
                       sleeps |-> r.sleeps,
                       answers |-> Answers(net, r.requests)]
    /\ calls' = calls + 1
    /\ prev' = last
    /\ UNCHANGED <<threads, builtins_print>>
    /\ UNCHANGED <<api_key, provider, _paper_cache, _refs_cache, refs_limit,
                   collection>>

FindBasisPaperCall(topic, body) ==
    /\ calls < MaxCalls
    /\ \E r \in {find_basis_paper(net, api_key, topic, body)} :
           /\ net' = r.net
           /\ last' = [op |-> "find_basis_paper", topic |-> topic,
                       body |-> body, raised |-> r.raised, value |-> r.value,
                       requests |-> r.requests, sleeps |-> r.sleeps,
                       answers |-> Answers(net, r.requests)]
    /\ calls' = calls + 1
    /\ prev' = last
    /\ UNCHANGED <<threads, builtins_print>>
    /\ UNCHANGED <<api_key, provider, _paper_cache, _refs_cache, refs_limit,
                   collection>>

GetPaperCall(paper_id) ==
    /\ calls < MaxCalls
    /\ \E r \in {get_paper(St, api_key, provider, paper_id)} :
           /\ net' = r.st.net
           /\ _paper_cache' = r.st.pc
           /\ last' = [op |-> "get_paper", paper_id |-> paper_id,
                       raised |-> r.raised, none |-> r.none,
                       requests |-> r.st.requests,
                       answers |-> Answers(net, r.st.requests)]
    /\ calls' = calls + 1
    /\ prev' = last
    /\ UNCHANGED <<threads, builtins_print>>
    /\ UNCHANGED <<api_key, provider, _refs_cache, refs_limit, collection>>

GetReferencesCall(paper_id, limit) ==
    /\ calls < MaxCalls
    /\ \E r \in {get_references(St, api_key, provider, paper_id, limit)} :
           /\ net' = r.st.net
           /\ _paper_cache' = r.st.pc
           /\ _refs_cache' = r.st.rc
           /\ refs_limit' = r.st.rl
           /\ last' = [op |-> "get_references", paper_id |-> paper_id,
                       limit |-> limit, raised |-> r.raised,
                       value |-> r.value, requests |-> r.st.requests,
                       answers |-> Answers(net, r.st.requests),
                       was_cached |-> paper_id \in DOMAIN _refs_cache,
                       cached_refs |-> IF paper_id \in DOMAIN _refs_cache
                                       THEN _refs_cache[paper_id] ELSE <<>>,
                       cached_limit |-> IF paper_id \in DOMAIN refs_limit
                                        THEN refs_limit[paper_id] ELSE limit]
    /\ calls' = calls + 1
    /\ prev' = last
    /\ UNCHANGED <<threads, builtins_print>>
    /\ UNCHANGED <<api_key, provider, collection>>

ExpandCall(primary_ids, max_refs) ==
    /\ calls < MaxCalls
    /\ \E r \in {_collect_evidence_from_references(St, api_key, provider,
                    collection, primary_ids, max_refs)} :
           /\ net' = r.st.net
           /\ _paper_cache' = r.st.pc
           /\ _refs_cache' = r.st.rc
           /\ refs_limit' = r.st.rl
           /\ collection' = r.collection
           /\ last' = [op |-> "expand", primary_ids |-> primary_ids,
                       max_refs |-> max_refs, raised |-> r.raised,
                       value |-> r.value, hop1_ids |-> r.hop1_ids,
                       hop2_at |-> r.hop2_at,
                       cached_limits |-> refs_limit,
                       requests |-> r.st.requests,
                       answers |-> Answers(net, r.st.requests),
                       lookups |-> r.st.lookups]
    /\ calls' = calls + 1
    /\ prev' = last
    /\ UNCHANGED <<threads, builtins_print>>
    /\ UNCHANGED <<api_key, provider>>

UpsertCall(papers, topic) ==
    /\ calls < MaxCalls
    /\ \E r \in {upsert_papers(collection, papers, topic)} :
           /\ collection' = r.collection
           /\ last' = [op |-> "upsert_papers", papers |-> papers,
                       topic |-> topic, ids |-> r.ids,
                       before |-> collection]
    /\ calls' = calls + 1
    /\ prev' = last
    /\ UNCHANGED <<threads, builtins_print>>
    /\ UNCHANGED <<api_key, provider, net, _paper_cache, _refs_cache,
                   refs_limit>>

QueryCall(query, n_results, nearest, fails) ==
    /\ calls < MaxCalls
    /\ \E r \in {get_query_texts(collection, query, n_results, nearest,
                                 fails)} :
           last' = [op |-> "get_query_texts", query |-> query,
                    n_results |-> n_results, value |-> r.value,
                    accesses |-> r.accesses]
    /\ calls' = calls + 1
    /\ prev' = last
    /\ UNCHANGED <<threads, builtins_print>>
    /\ UNCHANGED <<api_key, provider, net, _paper_cache, _refs_cache,
                   refs_limit, collection>>

AuditCall(sample_missing) ==
    /\ calls < MaxCalls
    /\ last' = [op |-> "audit_abstracts", sample_missing |-> sample_missing,
                value |-> audit_abstracts(collection, sample_missing)]
    /\ calls' = calls + 1
    /\ prev' = last
    /\ UNCHANGED <<threads, builtins_print>>
    /\ UNCHANGED <<api_key, provider, net, _paper_cache, _refs_cache,
                   refs_limit, collection>>

FindMissingCall(max_ids) ==
    /\ calls < MaxCalls
    /\ \E r \in {find_missing_abstract_ids(collection, max_ids)} :
           last' = [op |-> "find_missing_abstract_ids", max_ids |-> max_ids,
                    value |-> r.out, examined |-> r.examined]
    /\ calls' = calls + 1
    /\ prev' = last
    /\ UNCHANGED <<threads, builtins_print>>
    /\ UNCHANGED <<api_key, provider, net, _paper_cache, _refs_cache,
                   refs_limit, collection>>

RehydrateCall(paper_ids) ==
    /\ calls < MaxCalls
    /\ \E r \in {rehydrate_papers_by_ids(St, api_key, provider, collection,
                                         paper_ids)} :
           /\ net' = r.st.net
           /\ _paper_cache' = r.st.pc
           /\ collection' = r.collection
           /\ last' = [op |-> "rehydrate_papers_by_ids",
                       paper_ids |-> paper_ids, raised |-> r.raised,
                       value |-> r.value, written |-> r.written,
                       requests |-> r.st.requests,
                       answers |-> Answers(net, r.st.requests),
                       before |-> collection,
                       cached |-> DOMAIN _paper_cache]
    /\ calls' = calls + 1
    /\ prev' = last
    /\ UNCHANGED <<threads, builtins_print>>
    /\ UNCHANGED <<api_key, provider, _refs_cache, refs_limit>>

DedupCall(raw_results, top_k) ==
    /\ calls < MaxCalls
    /\ last' = [op |-> "dedup", raw_results |-> raw_results,
                top_k |-> top_k, value |-> dedup(raw_results, top_k)]
    /\ calls' = calls + 1
    /\ prev' = last
    /\ UNCHANGED <<threads, builtins_print>>
    /\ UNCHANGED <<api_key, provider, net, _paper_cache, _refs_cache,
                   refs_limit, collection>>

\* Two callers of get_references on threads: a thread can be preempted
\* between any two of its accesses to the caches; the requests of one
\* fetch are kept together.
\* out of lines 163-172 for the body data
refs_entry_uncut(data, limit) == references_out(data.references)
refs_entry(data, limit) ==
    references_out(Take(data.references, slice_stop(limit)))

\* if paper_id in _refs_cache: return ...; data = get_paper(paper_id)
RaceRefsCheck(t) ==
    /\ threads[t].pc = "get_references"
    /\ threads' = [threads EXCEPT ![t].pc =
                      IF refs_cached(_refs_cache, threads[t].paper_id)
                      THEN "done" ELSE "get_paper"]
    /\ UNCHANGED <<api_key, provider, net, _paper_cache, _refs_cache,
                   refs_limit, collection, calls, last, prev, builtins_print>>

\* get_paper up to the request
RacePaperCheck(t) ==
    /\ threads[t].pc = "get_paper"
    /\ threads' =
          IF api_key_missing(api_key)
          THEN [threads EXCEPT ![t].pc = "done", ![t].raised = "ValueError"]
          ELSE IF threads[t].paper_id \in DOMAIN _paper_cache
          THEN [threads EXCEPT ![t].pc = "refs_store",
                               ![t].data = _paper_cache[threads[t].paper_id]]
          ELSE [threads EXCEPT ![t].pc = "request"]
    /\ UNCHANGED <<api_key, provider, net, _paper_cache, _refs_cache,
                   refs_limit, collection, calls, last, prev, builtins_print>>

\* response = _request_with_backoff(...); data = response.json()
RaceRequest(t) ==
    /\ threads[t].pc = "request"
    /\ \E r \in {_request_with_backoff(net)} :
          /\ net' = r.net
          /\ threads' =
                IF r.kind = "rsp"
                THEN [threads EXCEPT
                        ![t].pc = "paper_store",
                        ![t].data = PaperJson(provider, threads[t].paper_id)]
                ELSE [threads EXCEPT ![t].pc = "done"]
    /\ UNCHANGED <<api_key, provider, _paper_cache, _refs_cache, refs_limit,
                   collection, calls, last, prev, builtins_print>>

\* _paper_cache[paper_id] = data
RacePaperStore(t) ==
    /\ threads[t].pc = "paper_store"
    /\ _paper_cache' = Put(_paper_cache, threads[t].paper_id, threads[t].data)
    /\ threads' = [threads EXCEPT ![t].pc = "refs_store"]
    /\ UNCHANGED <<api_key, provider, net, _refs_cache, refs_limit,
                   collection, calls, last, prev, builtins_print>>

\* the loop over refs, then _refs_cache[paper_id] = out
RaceRefsStore(t) ==
    /\ threads[t].pc = "refs_store"
    /\ _refs_cache' = Put(_refs_cache, threads[t].paper_id,
                          refs_entry(threads[t].data, threads[t].limit))
    /\ refs_limit' = Put(refs_limit, threads[t].paper_id, threads[t].limit)
    /\ threads' = [threads EXCEPT ![t].pc = "done"]
    /\ UNCHANGED <<api_key, provider, net, _paper_cache, collection, calls,
                   last, prev, builtins_print>>

\* ---------------------------------------------------------- specifications
Scripts ==
    {[prefix |-> s, tail |-> t, served |-> FALSE] :
        s \in SeqsUpTo(Statuses, MaxPrefix), t \in Statuses}

NoProvider == [shape |-> "ring", fan |-> 0, dirty |-> FALSE]

\* the values builtins.print takes: the interpreter's own function, or the
\* capture_print closure of /research worker w
original_print == [fn |-> "print", worker |-> 0]
capture_print(w) == [fn |-> "capture_print", worker |-> w]

\* the state of a freshly imported process
Fresh ==
    /\ api_key \in BOOLEAN
    /\ _paper_cache = <<>>
    /\ _refs_cache = <<>>
    /\ refs_limit = <<>>
    /\ calls = 0
    /\ last = [op |-> "init"]
    /\ prev = [op |-> "init"]
    /\ threads = <<>>
    /\ builtins_print = original_print

\* the fetch client and the search adapter
InitFetch ==
    /\ Fresh
    /\ provider = NoProvider
    /\ net \in Scripts
    /\ collection = <<>>

NextFetch ==
    \/ RequestCall
    \/ \E topic \in Topics, body \in SearchBodies :
          FindBasisPaperCall(topic, body)

SpecFetch == InitFetch /\ [][NextFetch]_vars

\* the memoization cache
CacheProviders ==
    {[shape |-> "ring", fan |-> f, dirty |-> d] :
        f \in {0, 4, 7}, d \in BOOLEAN}
CacheIds == {1, 2}
Limits == {-1, 0, 1, 3, 10}

InitCache ==
    /\ Fresh
    /\ provider \in CacheProviders
    /\ net \in Scripts
    /\ collection = <<>>

NextCache ==
    \/ \E paper_id \in CacheIds : GetPaperCall(paper_id)
    \/ \E paper_id \in CacheIds, limit \in Limits :
          GetReferencesCall(paper_id, limit)

SpecCache == InitCache /\ [][NextCache]_vars

\* the evidence graph expander
ExpandProviders ==
    {[shape |-> "ring", fan |-> 3, dirty |-> FALSE],
     [shape |-> "tree", fan |-> 6, dirty |-> FALSE],
     [shape |-> "tree", fan |-> 7, dirty |-> TRUE],
     [shape |-> "tree", fan |-> 22, dirty |-> FALSE]}
ExpandScripts ==
    {[prefix |-> <<>>, tail |-> t, served |-> FALSE] : t \in Statuses}
    \cup {[prefix |-> <<429, 503>>, tail |-> 0, served |-> FALSE],
          [prefix |-> <<503, 0, 429>>, tail |-> 404, served |-> FALSE],
          [prefix |-> <<429, 200, 503, 0>>, tail |-> 200, served |-> FALSE],
          [prefix |-> <<200, 200>>, tail |-> 429, served |-> FALSE]}
SeedLists == {<<>>, <<1>>, <<2, 1, 2>>, <<1, 2, 3, 4, 5, 6>>}
MaxRefsInputs == {-3, 10, 13, 100}
Indexed == [x \in 1..10 |-> [paperId |-> x]]

InitExpand ==
    /\ Fresh
    /\ provider \in ExpandProviders
    /\ net \in ExpandScripts
    /\ collection = Indexed

NextExpand ==
    \/ \E primary_ids \in SeedLists, max_refs \in MaxRefsInputs :
          ExpandCall(primary_ids, max_refs)
    \/ \E paper_id \in {1, 8}, limit \in {2} :
          GetReferencesCall(paper_id, limit)

SpecExpand == InitExpand /\ [][NextExpand]_vars

\* the semantic index adapter
Url == <<"http://", "u">>
PaperA == [paperId |-> 1, title |-> <<"t">>, abstract |-> <<"a">>,
           url |-> Url, year |-> 2020]
PaperB == [paper_id |-> 2, title |-> <<" ", "t">>, url |-> <<Sep, "https://", "u">>]
PaperLists ==
    {<<>>,
     <<PaperA>>,
     <<[paperId |-> 0 - 1, title |-> <<"t", " ", "t">>, abstract |-> <<" ">>]>>,
     <<[nondict |-> TRUE], [title |-> <<"t">>, abstract |-> <<"a">>],
       [paperId |-> 0, title |-> <<"t">>],
       [paperId |-> Blank, paper_id |-> 3, title |-> <<"t">>],
       PaperB>>,
     <<PaperB, PaperA>>,
     <<[paperId |-> 4, title |-> <<"t">>, url |-> <<"ftp://", "u">>],
       [paperId |-> 5, title |-> <<"t", Sep, "b">>]>>,
     <<[paperId |-> 0, paper_id |-> 0 - 3, abstract |-> <<" ", "a">>,
        url |-> <<" ">>]>>}
IndexTopics == {<<>>, <<"topic">>}

\* records the collection may hold when the process starts, whoever wrote
\* them
Stored(recs) ==
    [id \in {recs[i].id : i \in 1..Len(recs)} |->
        LET i == CHOOSE j \in 1..Len(recs) : recs[j].id = id
        IN  [row |-> i, document |-> recs[i].document,
             metadata |-> recs[i].metadata]]
Rec(id, doc, abstract) ==
    [id |-> id, document |-> doc,
     metadata |-> IF abstract = <<>> THEN [paperId |-> id]
                  ELSE [paperId |-> id, abstract |-> abstract]]
StoredIndexes ==
    {Stored(<<>>),
     Stored(<<Rec(1, <<"t", Sep>> \o Url, <<>>),
              Rec(5, <<"t", Sep, "a", Sep>> \o Url, <<>>)>>),
     Stored(<<Rec(4, <<"t">>, <<" ">>),
              Rec(2, <<"t", Sep, "a">>, <<>>),
              Rec(6, <<"t", Sep>> \o Url \o <<Sep, "b">>, <<>>),
              Rec(1, <<"t", Sep, " ", Sep>> \o Url, <<>>)>>),
     Stored(<<Rec(3, <<"t">>, <<"a">>),
              Rec(7, <<"t", Sep, "a", Sep, " ", "b">>, <<>>),
              Rec(8, <<>>, <<>>)>>)}
\* the store fails on no query or on any
Queries == {<<>>, <<Sep, " ">>, <<"q">>, <<" ", "q">>}
NResults == {0, 5}
StoreAnswers ==
    {[nearest |-> "first", fails |-> FALSE],
     [nearest |-> "last", fails |-> FALSE],
     [nearest |-> "first", fails |-> TRUE]}
SampleSizes == {-1, 0, 1, 2, 20}

\* what the provider answers for the papers 1..3: one with an abstract, one
\* without, one with an abstract and no paperId
Corpus ==
    [shape |-> "corpus", fan |-> 0, dirty |-> FALSE,
     papers |-> <<[paperId |-> 1, title |-> <<"t">>, abstract |-> <<"a">>],
                  [paperId |-> 2, title |-> <<"t">>, abstract |-> <<" ">>],
                  [title |-> <<"t">>, abstract |-> <<"a", " ", "a">>]>>]
IndexScripts ==
    {[prefix |-> <<>>, tail |-> 200, served |-> FALSE],
     [prefix |-> <<429, 200>>, tail |-> 404, served |-> FALSE]}
RehydrateLists == {<<>>, <<1>>, <<0, 2, 1>>, <<3, 1>>, <<2, 3>>}

InitIndex ==
    /\ Fresh
    /\ provider = Corpus
    /\ net \in IndexScripts
    /\ collection \in StoredIndexes

NextIndex ==
    \/ \E papers \in PaperLists, topic \in IndexTopics :
          UpsertCall(papers, topic)
    \/ \E query \in Queries, n_results \in NResults, a \in StoreAnswers :
          QueryCall(query, n_results, a.nearest, a.fails)
    \/ \E sample_missing \in SampleSizes : AuditCall(sample_missing)
    \/ \E max_ids \in SampleSizes : FindMissingCall(max_ids)
    \/ \E paper_ids \in RehydrateLists : RehydrateCall(paper_ids)

SpecIndex == InitIndex /\ [][NextIndex]_vars

\* the process from its start: importing scholar_api with no key prints a
\* warning and goes on, and the process takes calls
import_raises(key) == FALSE
StartupProviders == {[shape |-> "ring", fan |-> 3, dirty |-> FALSE]}
StartupScripts ==
    {[prefix |-> <<>>, tail |-> 200, served |-> FALSE],
     [prefix |-> <<429>>, tail |-> 503, served |-> FALSE]}
StartupSeeds == {<<>>, <<1>>, <<2, 1, 2>>}

InitStartup ==
    /\ Fresh
    /\ provider \in StartupProviders
    /\ net \in StartupScripts
    /\ collection = Indexed

NextStartup ==
    /\ ~import_raises(api_key)
    /\ \/ \E topic \in Topics, body \in SearchBodies :
             FindBasisPaperCall(topic, body)
       \/ \E paper_id \in CacheIds : GetPaperCall(paper_id)
       \/ \E primary_ids \in StartupSeeds : ExpandCall(primary_ids, 10)

SpecStartup == InitStartup /\ [][NextStartup]_vars

\* the deduplication pass
DedupRecords ==
    {[paperId |-> 1, title |-> <<"t">>, url |-> Url],
     [paper_id |-> 0 - 1, title |-> <<"b">>],
     [paperId |-> 0, title |-> <<" ", "T">>, url |-> <<"https://", "u">>],
     [title |-> <<"t">>, openAccessPdf |-> [url |-> <<"https://", "u", " ">>]],
     [paperId |-> Blank, title |-> <<"t">>]}
RawResults ==
    SeqsUpTo(DedupRecords, 1)
    \cup {<<a, b, c, d>> \in DedupRecords \X DedupRecords \X DedupRecords
                              \X DedupRecords :
             /\ "url" \in DOMAIN a /\ "openAccessPdf" \in DOMAIN b
             /\ "url" \notin DOMAIN c \cup DOMAIN b
             /\ "paperId" \in DOMAIN d}
TopKs == {0, 2, 3}

InitDedup ==
    /\ Fresh
    /\ provider = NoProvider
    /\ net = [prefix |-> <<>>, tail |-> 200, served |-> FALSE]
    /\ collection = <<>>

NextDedup ==
    \E raw_results \in RawResults, top_k \in TopKs :
       DedupCall(raw_results, top_k)

SpecDedup == InitDedup /\ [][NextDedup]_vars

\* two concurrent get_references calls for one id
RaceProviders ==
    {[shape |-> "ring", fan |-> 4, dirty |-> FALSE],
     [shape |-> "ring", fan |-> 7, dirty |-> TRUE]}
RaceScripts ==
    {[prefix |-> <<>>, tail |-> t, served |-> FALSE] : t \in {200, 404}}
    \cup {[prefix |-> <<404>>, tail |-> 200, served |-> FALSE],
          [prefix |-> <<429, 200>>, tail |-> 503, served |-> FALSE],
          [prefix |-> <<200>>, tail |-> 0, served |-> FALSE]}
RaceLimits == {0, 2, 10}
Caller(paper_id, limit) ==
    [pc |-> "get_references", paper_id |-> paper_id, limit |-> limit,
     raised |-> "", data |-> <<>>]

InitRace ==
    /\ api_key \in BOOLEAN
    /\ provider \in RaceProviders
    /\ net \in RaceScripts
    /\ _paper_cache = <<>>
    /\ _refs_cache = <<>>
    /\ refs_limit = <<>>
    /\ collection = <<>>
    /\ calls = 0
    /\ last = [op |-> "start", net |-> net]
    /\ prev = [op |-> "init"]
    /\ threads \in {<<Caller(id, l1), Caller(id, l2)>> :
                       id \in CacheIds, l1 \in RaceLimits, l2 \in RaceLimits}
    /\ builtins_print = original_print

NextRace ==
    \/ \E t \in {1, 2} : RaceRefsCheck(t)
    \/ \E t \in {1, 2} : RacePaperCheck(t)
    \/ \E t \in {1, 2} : RaceRequest(t)
    \/ \E t \in {1, 2} : RacePaperStore(t)
    \/ \E t \in {1, 2} : RaceRefsStore(t)

SpecRace == InitRace /\ [][NextRace]_vars

\* the /research front end: every request starts one run_agent thread, and
\* the threads are preempted between any two of their statements
MaxWorkers == 3
Worker == [pc |-> "old_print", old_print |-> original_print, error |-> FALSE]

\* thread = threading.Thread(target=run_agent); thread.start()
ResearchRequest ==
    /\ Len(threads) < MaxWorkers
    /\ threads' = Append(threads, Worker)
    /\ UNCHANGED <<api_key, provider, net, _paper_cache, _refs_cache,
                   refs_limit, collection, calls, last, prev, builtins_print>>

\* old_print = print
SavePrint(t) ==
    /\ threads[t].pc = "old_print"
    /\ threads' = [threads EXCEPT ![t].pc = "patch",
                                  ![t].old_print = builtins_print]
    /\ UNCHANGED <<api_key, provider, net, _paper_cache, _refs_cache,
                   refs_limit, collection, calls, last, prev, builtins_print>>

\* builtins.print = capture_print
PatchPrint(t) ==
    /\ threads[t].pc = "patch"
    /\ builtins_print' = capture_print(t)
    /\ threads' = [threads EXCEPT ![t].pc = "run_research_agent"]
    /\ UNCHANGED <<api_key, provider, net, _paper_cache, _refs_cache,
                   refs_limit, collection, calls, last, prev>>

\* the body of the try block: it returns or raises
RunAgent(t, raises) ==
    /\ threads[t].pc = "run_research_agent"
    /\ threads' = [threads EXCEPT ![t].pc = "finally", ![t].error = raises]
    /\ UNCHANGED <<api_key, provider, net, _paper_cache, _refs_cache,
                   refs_limit, collection, calls, last, prev, builtins_print>>

\* finally: builtins.print = old_print
RestorePrint(t) ==
    /\ threads[t].pc = "finally"
    /\ builtins_print' = threads[t].old_print
    /\ threads' = [threads EXCEPT ![t].pc = "done"]
    /\ UNCHANGED <<api_key, provider, net, _paper_cache, _refs_cache,
                   refs_limit, collection, calls, last, prev>>

InitResearch ==
    /\ Fresh
    /\ provider = NoProvider
    /\ net = [prefix |-> <<>>, tail |-> 200, served |-> FALSE]
    /\ collection = <<>>

NextResearch ==
    \/ ResearchRequest
    \/ \E t \in DOMAIN threads : SavePrint(t)
    \/ \E t \in DOMAIN threads : PatchPrint(t)
    \/ \E t \in DOMAIN threads, raises \in BOOLEAN : RunAgent(t, raises)
    \/ \E t \in DOMAIN threads : RestorePrint(t)

SpecResearch == InitResearch /\ [][NextResearch]_vars

\* ------------------------------------------------------------------ claims
Clamp(x, lo, hi) == IF x < lo THEN lo ELSE IF x > hi THEN hi ELSE x

\* C1: the list returned by expand contains none of the seed ids passed in.
C1_SeedsExcluded ==
    (last.op = "expand" /\ last.raised = "")
        => Range(last.value) \cap Range(last.primary_ids) = {}

C3_SizeBound ==
    last.op = "expand"
        => /\ Len(last.value) <= 5 * Clamp(last.max_refs, 5, 20)
                                 + Clamp(last.max_refs \div 2, 5, 20)
           /\ Len(last.value) <= 120

C3_Witness ==
    /\ last.op = "expand"
    /\ last.max_refs = 100
    /\ Len(last.primary_ids) > 5
    /\ Len(last.value) = 120

\* C4: one call of the fetch client issues at most 3 HTTP requests, whatever
\* mix of 429 and 5xx answers it gets.
C4_AttemptBudget ==
    last.op = "_request_with_backoff" => last.requests <= 3

C4_Witness ==
    /\ last.op = "_request_with_backoff"
    /\ last.answers = <<429, 503, 429>>
    /\ last.requests = 3

\* C5: a get_paper(id) that ends with an absent result leaves id out of the
\* paper cache, and the next get_paper(id) issues a new provider request.
C5_AbsentNotCached ==
    /\ (last.op = "get_paper" /\ last.raised = "" /\ last.none)
          => last.paper_id \notin DOMAIN _paper_cache
    /\ (/\ prev.op = "get_paper" /\ prev.raised = "" /\ prev.none
        /\ last.op = "get_paper" /\ last.paper_id = prev.paper_id)
          => last.requests >= 1

C5_Witness ==
    /\ prev.op = "get_paper" /\ prev.raised = "" /\ prev.none
    /\ prev.requests >= 2
    /\ last.op = "get_paper" /\ last.paper_id = prev.paper_id
    /\ last.requests >= 1
    /\ ~last.none

C8_DegradedEmpty ==
    (last.op = "expand" /\ api_key /\ ~net.served)
        => last.value = <<>> /\ last.raised = ""

C8_Witness ==
    /\ last.op = "expand" /\ api_key /\ ~net.served
    /\ Len(last.primary_ids) >= 3
    /\ {0, 429, 503} \subseteq Range(last.answers)
    /\ last.requests >= 4
    /\ last.value = <<>>

\* C9: find_basis_paper never raises, for every topic and provider outcome.
C9_NeverRaises ==
    last.op = "find_basis_paper" => last.raised = ""

\* C9 (amended): find_basis_paper raises ValueError, before any request,
\* exactly when the topic is empty or the API key is not configured;
\* otherwise it returns a list, which is empty when the provider reports
\* zero total results or the request fails.
C9_RaisesOnlyOnBadInput ==
    last.op = "find_basis_paper"
        => /\ last.raised # "" <=> (last.topic = "" \/ ~api_key)
           /\ last.raised # "" => (last.raised = "ValueError"
                                   /\ last.requests = 0)
           /\ (/\ last.raised = ""
               /\ \/ last.answers # <<200>>
                  \/ ~last.body.has_total
                  \/ last.body.total = 0)
                 => last.value = <<>>

C9_Witness ==
    /\ last.op = "find_basis_paper"
    /\ last.topic # ""
    /\ last.answers = <<503>>
    /\ last.raised = ""
    /\ last.value = <<>>

\* C10: a search request answered by 429 or 5xx is retried with backoff by
\* the fetch client, within the 3-attempt budget.
C10_SearchRetried ==
    (/\ last.op = "find_basis_paper"
     /\ last.requests >= 1
     /\ last.answers[1] \in {429, 503})
        => /\ last.requests >= 2
           /\ last.requests <= 3
           /\ last.sleeps # <<>>

\* C11: within one fetch-client call the sleeps are 0.5s, 1.0s, 2.0s, ... in
\* this order, none longer than 4.0s; every 429 answer causes a sleep, and a
\* 5xx answer causes one only when an attempt remains.
C11_BackoffSchedule ==
    last.op = "_request_with_backoff"
        => /\ \A i \in 1..Len(last.sleeps) :
                 /\ last.sleeps[i] = 5 * 2 ^ (i - 1)
                 /\ last.sleeps[i] <= 40
           /\ Len(last.sleeps) =
                 Cardinality({i \in 1..Len(last.answers) :
                                 \/ last.answers[i] = 429
                                 \/ last.answers[i] = 503 /\ i < 3})

C11_Witness ==
    /\ last.op = "_request_with_backoff"
    /\ last.answers = <<429, 503, 503>>
    /\ last.sleeps = <<5, 10>>
    /\ last.kind = "raise"

\* the papers of a list that upsert has to file, and the id of each
Filed(papers) ==
    {i \in 1..Len(papers) :
        isdict(papers[i]) /\ Strip(raw_paper_id(papers[i])) # 0}
TrimmedId(p) == Strip(raw_paper_id(p))

\* C12: the index never holds a record with an empty id, and after an upsert
\* every paper with a non-empty trimmed id is filed under that id, which is
\* the paperId of its metadata; nothing else is written.
C12_IdsTrimmedNonEmpty ==
    /\ \A id \in DOMAIN collection : id > 0
    /\ last.op = "upsert_papers"
          => /\ \A i \in Filed(last.papers) :
                   LET id == TrimmedId(last.papers[i])
                   IN  /\ id \in DOMAIN collection
                       /\ "paperId" \in DOMAIN collection[id].metadata
                       /\ collection[id].metadata.paperId = id
             /\ Range(last.ids) =
                   {TrimmedId(last.papers[i]) : i \in Filed(last.papers)}
             /\ \A id \in DOMAIN collection :
                   id \notin Range(last.ids)
                      => /\ id \in DOMAIN last.before
                         /\ collection[id] = last.before[id]

C12_Witness ==
    /\ last.op = "upsert_papers"
    /\ Len(last.papers) = 5
    /\ Cardinality(Filed(last.papers)) = 1
    /\ last.ids = <<2>>
    /\ 2 \notin DOMAIN last.before
    /\ prev.op = "upsert_papers"
    /\ prev.ids = <<3>>
    /\ prev.papers[1].paper_id = 0 - 3

\* C13: after an upsert the record of every filed id holds the document and
\* the metadata of this call, whatever was stored under the id before, and
\* its place in the index is the one it had; the same upsert made twice in
\* a row leaves the index as the first one left it.
C13_LastWriteWins ==
    last.op = "upsert_papers"
        => /\ \A i \in Filed(last.papers) :
                 LET id == TrimmedId(last.papers[i])
                     dm == _normalize_paper_to_doc_meta(last.papers[i],
                                                        last.topic)
                 IN  /\ collection[id].document = dm.doc
                     /\ collection[id].metadata = dm.meta
                     /\ id \in DOMAIN last.before
                           => collection[id].row = last.before[id].row
           /\ count(collection) =
                 Cardinality(DOMAIN last.before \cup Range(last.ids))
           /\ (/\ prev.op = "upsert_papers"
               /\ prev.papers = last.papers
               /\ prev.topic = last.topic) => collection = last.before

C13_Witness ==
    /\ prev.op = "upsert_papers"
    /\ prev.ids = <<1>>
    /\ last.op = "upsert_papers"
    /\ last.ids = <<1>>
    /\ last.papers = <<PaperA>>
    /\ last.before[1].document = <<"t", " ", "t">>
    /\ collection[1].document = <<"t", Sep, "a", Sep>> \o Url
    /\ collection[1].metadata.abstract = <<"a">>
    /\ count(collection) = count(last.before)

\* C14: a query whose text is empty or whitespace only returns the empty
\* structured result for every n_results and makes no call on the collection.
C14_BlankQueryNoAccess ==
    (last.op = "get_query_texts" /\ StripText(last.query) = <<>>)
        => /\ last.value = [ids |-> << <<>> >>, distances |-> << <<>> >>,
                            metadatas |-> << <<>> >>, documents |-> << <<>> >>]
           /\ last.accesses = 0

C14_Witness ==
    /\ last.op = "get_query_texts"
    /\ last.query = <<Sep, " ">>
    /\ last.n_results = 5
    /\ count(collection) = 3
    /\ last.accesses = 0
    /\ prev.op = "get_query_texts"
    /\ prev.accesses = 1
    /\ Len(prev.value.ids[1]) = 1

\* the abstract test in the words of the audit contract
WithAbstract(rec) ==
    LET parts == doc_parts_of(rec.document)
    IN  \/ /\ "abstract" \in DOMAIN rec.metadata
           /\ StripText(rec.metadata.abstract) # <<>>
        \/ Len(parts) >= 3 /\ is_url(parts[Len(parts)])
        \/ Len(parts) >= 2 /\ ~is_url(parts[2])
\* the ids, in scan order, of the records without abstract
MissingInScanOrder(coll) ==
    LET failing == SelectSeq(collection_get(coll),
                             LAMBDA rec : ~WithAbstract(rec))
    IN  [i \in 1..Len(failing) |-> failing[i].id]

\* C15: in an audit report with_abstract + without_abstract = total, total
\* is the number of records, missing_ids is no longer than a sample size of
\* zero or more, and it is the start of the list, in scan order, of the ids
\* of the records that fail both abstract checks.
C15_AuditReport ==
    last.op = "audit_abstracts"
        => /\ last.value.with_abstract + last.value.without_abstract
                 = last.value.total
           /\ last.value.total = count(collection)
           /\ last.sample_missing >= 0
                 => Len(last.value.missing_ids) <= last.sample_missing
           /\ last.value.missing_ids =
                 Take(MissingInScanOrder(collection),
                      Max(0, last.sample_missing))

C15_Witness ==
    /\ last.op = "audit_abstracts"
    /\ last.sample_missing = 2
    /\ last.value.total = 4
    /\ last.value.without_abstract = 3
    /\ last.value.missing_ids = <<4, 6>>

\* C16: the audit counts as with abstract exactly the records whose metadata
\* abstract is non-empty, or whose document has three or more parts the last
\* of which is a url, or two or more parts the second of which is no url
\* (parts being the non-blank pieces between separators); a record whose
\* document is a title and a url and whose metadata has no abstract is
\* counted as without abstract.
C16_AuditClassification ==
    last.op = "audit_abstracts"
        => /\ last.value.with_abstract =
                 Cardinality({id \in DOMAIN collection :
                     WithAbstract([id |-> id,
                                   document |-> collection[id].document,
                                   metadata |-> collection[id].metadata])})
           /\ \A id \in DOMAIN collection :
                 (/\ Len(doc_parts_of(collection[id].document)) = 2
                  /\ is_url(doc_parts_of(collection[id].document)[2])
                  /\ "abstract" \notin DOMAIN collection[id].metadata
                  /\ last.sample_missing >= count(collection))
                     => id \in Range(last.value.missing_ids)

C16_Witness ==
    /\ last.op = "audit_abstracts"
    /\ last.sample_missing = 20
    /\ count(collection) = 2
    /\ collection[1].document = <<"t", Sep>> \o Url
    /\ "abstract" \notin DOMAIN collection[1].metadata
    /\ last.value.missing_ids = <<1>>
    /\ last.value.with_abstract = 1

C18_UpdatedCountsWritten ==
    (last.op = "rehydrate_papers_by_ids" /\ last.raised = "")
        => /\ last.value.requested = Len(last.paper_ids)
           /\ last.value.updated = last.written
           /\ last.value.updated <= last.value.fetched
           /\ last.value.fetched <= last.value.requested

\* C19 as stated: a process started without the provider API key never
\* takes a search, paper-fetch or expansion call.
C19_MissingKeyFatal == ~api_key => calls = 0

\* C19: a process started without the provider API key takes calls, and
\* none of them sends a provider request or fills a cache: search and
\* paper fetch raise ValueError, and so does expansion unless the seed list
\* is empty, for which it returns the empty list.
C19_MissingKeyFailsCalls ==
    ~api_key
        => /\ ~net.served
           /\ _paper_cache = <<>>
           /\ _refs_cache = <<>>
           /\ last.op \in {"find_basis_paper", "get_paper"}
                 => last.raised = "ValueError" /\ last.requests = 0
           /\ last.op = "expand"
                 => /\ last.requests = 0
                    /\ last.value = <<>>
                    /\ last.raised =
                          IF last.primary_ids = <<>> THEN "" ELSE "ValueError"

C19_Witness ==
    /\ ~api_key
    /\ calls = 2
    /\ prev.op = "find_basis_paper"
    /\ prev.topic # ""
    /\ prev.raised = "ValueError"
    /\ last.op = "expand"
    /\ last.primary_ids = <<2, 1, 2>>
    /\ last.raised = "ValueError"

\* C20: the list returned by expand holds no id twice and no empty id: an
\* id met under several seeds, or met again in hop 2, is in the list once.
C20_NoDuplicateNoEmpty ==
    (last.op = "expand" /\ last.raised = "")
        => /\ \A i, j \in 1..Len(last.value) :
                 i # j => last.value[i] # last.value[j]
           /\ \A i \in 1..Len(last.value) : last.value[i] > 0

C20_Witness ==
    /\ last.op = "expand" /\ last.raised = ""
    /\ provider = [shape |-> "ring", fan |-> 3, dirty |-> FALSE]
    /\ last.primary_ids = <<2, 1, 2>>
    /\ last.value = <<3, 4, 5, 2, 6, 7, 8>>

\* C21: hop 2 looks up, in order, ids among the first hop1_cap ids of hop 1;
\* every lookup of hop 2 is made while fewer than hop2_cap_total ids have
\* been added by hop 2, hop 2 adds at most hop2_cap_total ids, and it leaves
\* out an id of those first hop1_cap only when the count has reached
\* hop2_cap_total.
C21_Hop2StopsAtCap ==
    (last.op = "expand" /\ last.raised = "")
        => LET n1 == Min(5, Len(last.primary_ids))
               m == Len(last.lookups) - n1
               cap1 == Clamp(last.max_refs, 5, 20)
               cap2 == Clamp(last.max_refs \div 2, 5, 20)
               added == Len(last.value) - Len(last.hop1_ids)
           IN  /\ m = Len(last.hop2_at)
               /\ m <= Min(cap1, Len(last.hop1_ids))
               /\ \A k \in 1..m :
                     /\ last.lookups[n1 + k][1] = last.hop1_ids[k]
                     /\ last.hop2_at[k] < cap2
               /\ Take(last.value, Len(last.hop1_ids)) = last.hop1_ids
               /\ added <= cap2
               /\ m < Min(cap1, Len(last.hop1_ids)) => added = cap2

C21_Witness ==
    /\ last.op = "expand" /\ last.raised = ""
    /\ last.max_refs = 10
    /\ Len(last.hop1_ids) >= 6
    /\ Len(last.lookups) = Len(last.primary_ids) + 1
    /\ last.hop2_at = <<0>>
    /\ Len(last.value) = Len(last.hop1_ids) + 5

\* the key of the dedup contract: the trimmed provider id if it is not
\* empty, else the lower-cased trimmed title and url
ContractKey(p) ==
    IF TrimmedId(p) # 0 THEN <<"id", TrimmedId(p), <<>>, <<>> >>
    ELSE <<"tu", 0, _key(p).title, _key(p).url>>
\* the positions of a list that hold the first record of their key
FirstSeen(recs) ==
    {i \in 1..Len(recs) :
        \A j \in 1..(i - 1) : ContractKey(recs[j]) # ContractKey(recs[i])}

MinOf(S) == CHOOSE a \in S : \A b \in S : a <= b
Places(lookups, lo, hi, cap, x) ==
    {1000 * k + j : <<k, j>> \in
        {kj \in (lo..hi) \X (1..cap) :
            /\ kj[2] <= Len(lookups[kj[1]][3])
            /\ lookups[kj[1]][3][kj[2]].paperId = x}}
InOrder(ids, lookups, lo, hi, cap) ==
    /\ \A a \in 1..Len(ids) : Places(lookups, lo, hi, cap, ids[a]) # {}
    /\ \A a \in 1..(Len(ids) - 1) :
          MinOf(Places(lookups, lo, hi, cap, ids[a]))
             < MinOf(Places(lookups, lo, hi, cap, ids[a + 1]))

C24_SleepThenRetry ==
    last.op = "_request_with_backoff"
        => Len(last.sleeps) < last.requests

\* the caches after caller a and then caller b have run one after the other
\* on the process as it started
OneAfterTheOther(a, b) ==
    LET st0 == [net |-> last.net, pc |-> <<>>, rc |-> <<>>, rl |-> <<>>,
                requests |-> 0, lookups |-> <<>>]
        r1 == get_references(st0, api_key, provider, threads[a].paper_id,
                             threads[a].limit)
        r2 == get_references(r1.st, api_key, provider, threads[b].paper_id,
                             threads[b].limit)
    IN  r2.st
\* the entry of a cache for an id: <<>> when there is none
Entry(cache, id) == IF id \in DOMAIN cache THEN <<cache[id]>> ELSE <<>>
BothDone == \A t \in {1, 2} : threads[t].pc = "done"

\* C25 as stated: when two concurrent get_references calls for one id have
\* finished, the paper-cache entry and the reference-cache entry of the id
\* are those left by the two calls run one after the other, in either order.
C25_RaceIdempotent ==
    (last.op = "start" /\ BothDone)
        => \A o \in {<<1, 2>>, <<2, 1>>} :
              LET id == threads[1].paper_id
                  seq == OneAfterTheOther(o[1], o[2])
              IN  /\ Entry(_paper_cache, id) = Entry(seq.pc, id)
                  /\ Entry(_refs_cache, id) = Entry(seq.rc, id)

\* C25: when two concurrent get_references calls for one id have finished,
\* the paper-cache entry of the id is the one left by the two calls run one
\* after the other in either order; the reference-cache entry is the one
\* left by one of the two orders, and by both when the two limits cut the
\* list alike.
C25_RaceSerializable ==
    (last.op = "start" /\ BothDone)
        => LET id == threads[1].paper_id
               s12 == OneAfterTheOther(1, 2)
               s21 == OneAfterTheOther(2, 1)
           IN  /\ Entry(_paper_cache, id) = Entry(s12.pc, id)
               /\ Entry(_paper_cache, id) = Entry(s21.pc, id)
               /\ Entry(_refs_cache, id)
                     \in {Entry(s12.rc, id), Entry(s21.rc, id)}
               /\ Max(1, threads[1].limit) = Max(1, threads[2].limit)
                     => Entry(s12.rc, id) = Entry(s21.rc, id)

C25_Witness ==
    /\ last.op = "start" /\ BothDone
    /\ threads[1].limit = 10 /\ threads[2].limit = 2
    /\ threads[1].data # <<>> /\ threads[2].data # <<>>
    /\ last.net.prefix = <<>>
    /\ net.served
    /\ Len(_refs_cache[threads[1].paper_id]) = 4
    /\ Len(OneAfterTheOther(2, 1).rc[threads[1].paper_id]) = 2

\* C26: every id with an entry in the reference cache has an entry in the
\* paper cache, and no call removes or changes an entry of either cache.
C26_CachesGrow ==
    /\ [](DOMAIN _refs_cache \subseteq DOMAIN _paper_cache)
    /\ [][/\ \A id \in DOMAIN _paper_cache :
                /\ id \in DOMAIN _paper_cache'
                /\ _paper_cache'[id] = _paper_cache[id]
          /\ \A id \in DOMAIN _refs_cache :
                /\ id \in DOMAIN _refs_cache'
                /\ _refs_cache'[id] = _refs_cache[id]]_vars

C26_Witness ==
    /\ prev.op = "get_paper" /\ prev.paper_id = 2 /\ ~prev.none
    /\ last.op = "get_references" /\ last.paper_id = 1
    /\ DOMAIN _paper_cache = {1, 2}
    /\ DOMAIN _refs_cache = {1}
    /\ Len(_refs_cache[1]) >= 3

\* what expand returns on a process with empty caches
OnEmptyCaches(primary_ids, max_refs) ==
    _collect_evidence_from_references(
        [net |-> net, pc |-> <<>>, rc |-> <<>>, rl |-> <<>>,
         requests |-> 0, lookups |-> <<>>],
        api_key, provider, collection, primary_ids, max_refs).value
Healthy ==
    /\ net.prefix = <<>> /\ net.tail = 200
    /\ \A k \in 1..Len(last.answers) : last.answers[k] = 200

\* C27 as stated: while the provider answers every request, expand returns
\* the list it returns on empty caches, whatever calls came before.
C27_HistoryIndependent ==
    (last.op = "expand" /\ last.raised = "" /\ Healthy)
        => last.value = OnEmptyCaches(last.primary_ids, last.max_refs)

\* C27: while the provider answers every request, expand returns the list
\* it returns on empty caches when every id it looks up was, before the
\* call, either absent from the reference cache or cached by a lookup with
\* the limit expand now uses for it.
C27_SameLimitsIndependent ==
    (/\ last.op = "expand" /\ last.raised = "" /\ Healthy
     /\ \A k \in 1..Len(last.lookups) :
           last.lookups[k][1] \in DOMAIN last.cached_limits
              => last.cached_limits[last.lookups[k][1]] = last.lookups[k][2])
        => last.value = OnEmptyCaches(last.primary_ids, last.max_refs)

C27_Witness ==
    /\ last.op = "expand" /\ last.raised = "" /\ Healthy
    /\ prev.op = "expand" /\ prev.raised = ""
    /\ prev.max_refs = last.max_refs
    /\ prev.primary_ids = last.primary_ids
    /\ DOMAIN last.cached_limits # {}
    /\ \A k \in 1..Len(last.lookups) :
          /\ last.lookups[k][1] \in DOMAIN last.cached_limits
          /\ last.cached_limits[last.lookups[k][1]] = last.lookups[k][2]
    /\ last.requests = 0
    /\ Len(last.value) >= 7

\* C28: one expansion makes at most 5 + hop1_cap get_references lookups and
\* sends at most 3 * (5 + hop1_cap) requests, which is at most 75.
C28_BoundedFanOut ==
    last.op = "expand" =>
        /\ Len(last.lookups) <= 5 + hop1_cap(last.max_refs)
        /\ last.requests <= 3 * (5 + hop1_cap(last.max_refs))
        /\ last.requests <= 75

C28_Witness ==
    /\ last.op = "expand"
    /\ Len(last.primary_ids) > 5
    /\ Len(last.lookups) = 5 + hop1_cap(last.max_refs)
    /\ Len(last.lookups) = 25
    /\ last.requests > 60

\* the paper a record was written from: the last one filed under its id
WrittenFrom(papers, id) ==
    papers[Max(0, CHOOSE i \in Filed(papers) :
                     /\ TrimmedId(papers[i]) = id
                     /\ \A j \in Filed(papers) :
                           TrimmedId(papers[j]) = id => j <= i)]
HadAbstract(p) == StripText(Get(p, "abstract", <<>>)) # <<>>

\* C29: on an index whose records were all written by one upsert, the audit
\* counts as with abstract exactly the records whose paper had a non-empty
\* abstract, and lists every other record as missing when the sample allows.
C29_AuditMatchesPapers ==
    (/\ prev.op = "upsert_papers" /\ count(prev.before) = 0
     /\ last.op = "audit_abstracts"
     /\ last.sample_missing >= count(collection))
        => /\ last.value.with_abstract =
                 Cardinality({id \in DOMAIN collection :
                                 HadAbstract(WrittenFrom(prev.papers, id))})
           /\ \A id \in DOMAIN collection :
                 id \in Range(last.value.missing_ids)
                    <=> ~HadAbstract(WrittenFrom(prev.papers, id))

\* C30: once every /research worker has finished, builtins.print is the
\* original function again.
C30_PrintRestored ==
    (threads # <<>> /\ \A t \in DOMAIN threads : threads[t].pc = "done")
        => builtins_print = original_print

====
